---------------------------- MODULE Spec2Model ----------------------------
(***************************************************************************)
(* The InfluxDB line protocol codec of tremor-runtime                      *)
(* (src/src/codec/influx.rs): the parser `parse` with its scanner          *)
(* `parse_to_char3`, the value classifier `parse_value` / `float_or_bool`, *)
(* and the serialiser `InfluxDatapoint::try_to_bytes` with its escapers.   *)
(*                                                                         *)
(* A Rust `String` / `&str` is a sequence of one-character strings, and a  *)
(* `Chars` iterator is the pair (sequence, position of the next char).     *)
(* Numbers are held as decimal numerals (sequences of digit characters in  *)
(* canonical form): i64, u64 and f64 values do not fit the integers of the *)
(* model checker, and the numeral keeps the 64-bit overflow tests exact.   *)
(* Codec::decode and Codec::encode are parse and try_to_bytes: the UTF-8    *)
(* validation and the serde conversions around them keep the DataPoint.    *)
(***************************************************************************)
EXTENDS Integers, Sequences, FiniteSets, TLC

VARIABLES
    origin,   \* "bytes": the run started from a line; "point": from a DataPoint
    pc,       \* what the pipeline holds: "bytes", "point" or "failed" ("scan": idle)
    last,     \* the operation that produced the current state
    bytes,    \* the byte buffer in hand (input of decode, output of encode)
    cur,      \* the current Result<InfluxDatapoint>
    prev,     \* the DataPoint that was handed to the last encode
    iter,     \* the order in which the last encode visited the two hash maps
    scan      \* the scanner/escaper exercise: region, text, escaped, result

vars == <<origin, pc, last, bytes, cur, prev, iter, scan>>

---------------------------------------------------------------------------
(* Characters and small helpers                                            *)

BS == "\\"
DQ == "\""
NL == "\n"
SP == " "
COMMA == ","
EQ == "="

\* Option<char>::None: a value no character equals.
NoChar == "None"

Digits == {"0", "1", "2", "3", "4", "5", "6", "7", "8", "9"}

DigitVal(c) ==
    CASE c = "0" -> 0 [] c = "1" -> 1 [] c = "2" -> 2 [] c = "3" -> 3
      [] c = "4" -> 4 [] c = "5" -> 5 [] c = "6" -> 6 [] c = "7" -> 7
      [] c = "8" -> 8 [] c = "9" -> 9

\* The tail of s from position i on (chars.as_str() with the cursor at i).
Rest(s, i) == SubSeq(s, i, Len(s))

RECURSIVE Concat(_)
\* The concatenation of a sequence of strings.
Concat(ss) == IF ss = <<>> THEN <<>> ELSE Head(ss) \o Concat(Tail(ss))

RECURSIVE Join(_, _)
\* [String]::join(sep)
Join(ss, sep) ==
    IF ss = <<>> THEN <<>>
    ELSE IF Len(ss) = 1 THEN Head(ss)
    ELSE Head(ss) \o sep \o Join(Tail(ss), sep)

\* All sequences over the set S of length exactly n, and of length at most n.
RECURSIVE StrsOfLen(_, _)
StrsOfLen(S, n) ==
    IF n = 0 THEN {<<>>}
    ELSE {Append(s, c) : s \in StrsOfLen(S, n - 1), c \in S}

Strs(S, n) == UNION {StrsOfLen(S, k) : k \in 0..n}

\* All orders (sequences without repetition) of the finite set S.
RECURSIVE Orders(_)
Orders(S) ==
    IF S = {} THEN {<<>>}
    ELSE UNION {{<<x>> \o o : o \in Orders(S \ {x})} : x \in S}

---------------------------------------------------------------------------
(* The scanner: parse_to_char3, parse_to_char2, parse_to_char              *)

\* Mutant of ScanOk: the cursor is left on the stop character.
ScanOkOnStop(res, c, pos) == [ok |-> TRUE, res |-> res, c |-> c, pos |-> pos - 1, err |-> ""]

ScanOk(res, c, pos) == [ok |-> TRUE, res |-> res, c |-> c, pos |-> pos, err |-> ""]
\* Mutant of ScanErr: the end of the input is read as a space that ends the scan.
ScanErrAsSpace(msg, pos) == [ok |-> TRUE, res |-> <<>>, c |-> SP, pos |-> pos, err |-> ""]

ScanErr(msg, pos) == [ok |-> FALSE, res |-> <<>>, c |-> NoChar, pos |-> pos, err |-> msg]

\* Mutant of NoneAfterBackslash: the backslash is the plain end of the input.
NoneAfterBackslashAsEnd(pos) == ScanErr("Expected end but did not find it", pos)

\* The arm of a backslash that nothing follows.
NoneAfterBackslash(pos) == ScanErr("non terminated escape sequence", pos)

\* Mutant of PushEscaped: every escape pushes its character alone.
PushEscapedAlone(res, d, end1, end2, end3) == Append(res, d)

\* Mutant of PushEscaped: a recognised escape keeps its backslash.
PushEscapedWithBackslash(res, d, end1, end2, end3) == res \o <<BS, d>>

\* The arm of a backslash followed by d: a recognised escape pushes d alone,
\* any other pair is pushed whole.
PushEscaped(res, d, end1, end2, end3) ==
    IF d = BS \/ d = end1 \/ d = end2 \/ d = end3 THEN Append(res, d)
    ELSE res \o <<BS, d>>

RECURSIVE ScanLoop(_, _, _, _, _, _)
\* The `while let Some(c) = chars.next()` loop of parse_to_char3, with the
\* cursor at position i of s and `res` accumulated so far.
ScanLoop(s, i, res, end1, end2, end3) ==
    IF i > Len(s) THEN ScanErr("Expected end but did not find it", i)
    ELSE LET c == s[i] IN
         IF c = end1 THEN ScanOk(res, end1, i + 1)
         ELSE IF c = end2 THEN ScanOk(res, c, i + 1)
         ELSE IF c = end3 THEN ScanOk(res, c, i + 1)
         ELSE IF c = BS THEN
              IF i + 1 > Len(s) THEN NoneAfterBackslash(i + 1)
              ELSE ScanLoop(s, i + 2, PushEscaped(res, s[i + 1], end1, end2, end3),
                            end1, end2, end3)
         ELSE ScanLoop(s, i + 1, Append(res, c), end1, end2, end3)

parse_to_char3(s, i, end1, end2, end3) == ScanLoop(s, i, <<>>, end1, end2, end3)

parse_to_char2(s, i, end1, end2) == parse_to_char3(s, i, end1, end2, NoChar)

parse_to_char(s, i, end) == parse_to_char3(s, i, end, NoChar, NoChar)

---------------------------------------------------------------------------
(* The escapers of the serialiser                                          *)

\* Mutant of EscapeChar: the double quote is written as it is.
EscapeCharNoQuote(c) ==
    IF c = COMMA \/ c = SP \/ c = BS \/ c = EQ THEN <<BS, c>> ELSE <<c>>

EscapeChar(c) ==
    IF c = COMMA \/ c = SP \/ c = BS \/ c = EQ \/ c = DQ THEN <<BS, c>> ELSE <<c>>

\* impl Escaper for String: escape()
escape(s) == Concat([j \in 1..Len(s) |-> EscapeChar(s[j])])

\* Mutant of ProcessChar: the backslash is written as it is.
ProcessCharQuoteOnly(c) == IF c = DQ THEN <<BS, c>> ELSE <<c>>

ProcessChar(c) == IF c = BS \/ c = DQ THEN <<BS, c>> ELSE <<c>>

\* process_string: the quoted rendering of a string field value
process_string(s) == <<DQ>> \o Concat([j \in 1..Len(s) |-> ProcessChar(s[j])]) \o <<DQ>>

---------------------------------------------------------------------------
(* Numbers: str::parse::<u64>(), ::<i64>(), ::<f64>() and to_string()      *)

IsDigits(s) == \A j \in 1..Len(s) : s[j] \in Digits

RECURSIVE StripZeros(_)
\* The numeral without leading zeros (one digit at least).
StripZeros(ds) ==
    IF Len(ds) > 1 /\ Head(ds) = "0" THEN StripZeros(Tail(ds)) ELSE ds

RECURSIVE StripTrailingZeros(_)
StripTrailingZeros(ds) ==
    IF ds # <<>> /\ ds[Len(ds)] = "0"
    THEN StripTrailingZeros(SubSeq(ds, 1, Len(ds) - 1)) ELSE ds

RECURSIVE LexLeq(_, _)
\* a <= b for two digit sequences of the same length
LexLeq(a, b) ==
    IF a = <<>> THEN TRUE
    ELSE IF DigitVal(Head(a)) < DigitVal(Head(b)) THEN TRUE
    ELSE IF DigitVal(Head(a)) > DigitVal(Head(b)) THEN FALSE
    ELSE LexLeq(Tail(a), Tail(b))

\* a <= b for two numerals without leading zeros
NumLeq(a, b) == Len(a) < Len(b) \/ (Len(a) = Len(b) /\ LexLeq(a, b))

\* u64::MAX = 2^64 - 1, i64::MAX = 2^63 - 1 and -i64::MIN = 2^63
U64Max == <<"1","8","4","4","6","7","4","4","0","7","3","7","0","9","5","5","1","6","1","5">>
I64Max == <<"9","2","2","3","3","7","2","0","3","6","8","5","4","7","7","5","8","0","7">>
I64MinAbs == <<"9","2","2","3","3","7","2","0","3","6","8","5","4","7","7","5","8","0","8">>

NumOk(neg, int, frac) == [ok |-> TRUE, neg |-> neg, int |-> int, frac |-> frac]
NumErr == [ok |-> FALSE, neg |-> FALSE, int |-> <<>>, frac |-> <<>>]

\* <u64 as FromStr>::from_str: an optional `+`, then digits; no `-`.
ParseU64(s) ==
    IF s = <<>> THEN NumErr
    ELSE LET ds == IF Head(s) = "+" THEN Tail(s) ELSE s IN
         IF ds = <<>> \/ ~IsDigits(ds) THEN NumErr
         ELSE LET n == StripZeros(ds) IN
              IF NumLeq(n, U64Max) THEN NumOk(FALSE, n, <<>>) ELSE NumErr

\* <i64 as FromStr>::from_str: an optional `+` or `-`, then digits.
ParseI64(s) ==
    IF s = <<>> THEN NumErr
    ELSE LET neg == Head(s) = "-"
             ds == IF Head(s) = "+" \/ Head(s) = "-" THEN Tail(s) ELSE s
         IN  IF ds = <<>> \/ ~IsDigits(ds) THEN NumErr
             ELSE LET n == StripZeros(ds) IN
                  IF NumLeq(n, IF neg THEN I64MinAbs ELSE I64Max)
                  THEN NumOk(neg /\ n # <<"0">>, n, <<>>) ELSE NumErr

RECURSIVE EatDigits(_, _)
\* The length of the longest run of digits of s that starts at position i.
EatDigits(s, i) ==
    IF i <= Len(s) /\ s[i] \in Digits THEN 1 + EatDigits(s, i + 1) ELSE 0

RECURSIVE DigitsToNat(_)
DigitsToNat(ds) ==
    IF ds = <<>> THEN 0 ELSE 10 * DigitsToNat(SubSeq(ds, 1, Len(ds) - 1)) + DigitVal(ds[Len(ds)])

Zeros(n) == [j \in 1..n |-> "0"]

\* The canonical numeral of the decimal int.frac with its sign.
Decimal(neg, int, frac) ==
    LET i == StripZeros(IF int = <<>> THEN <<"0">> ELSE int)
        f == StripTrailingZeros(frac)
    IN  NumOk(neg /\ ~(i = <<"0">> /\ f = <<>>), i, f)

\* The decimal int.frac times 10^e (e signed).
Scaled(neg, int, frac, e) ==
    LET ds == int \o frac
        p  == Len(int) + e
    IN  IF p >= Len(ds) THEN Decimal(neg, ds \o Zeros(p - Len(ds)), <<>>)
        ELSE IF p <= 0 THEN Decimal(neg, <<>>, Zeros(-p) \o ds)
        ELSE Decimal(neg, SubSeq(ds, 1, p), SubSeq(ds, p + 1, Len(ds)))

\* core::num::dec2flt::parse::parse_exp
ParseExp(neg, int, frac, r) ==
    LET eneg == r # <<>> /\ Head(r) = "-"
        ds   == IF r # <<>> /\ (Head(r) = "-" \/ Head(r) = "+") THEN Tail(r) ELSE r
    IN  IF ds = <<>> \/ ~IsDigits(ds) THEN NumErr
        ELSE Scaled(neg, int, frac, IF eneg THEN -DigitsToNat(ds) ELSE DigitsToNat(ds))

\* <f64 as FromStr>::from_str (dec2flt): sign, digits, `.`, digits, exponent;
\* the value is exact for the short numerals the model reads.
ParseF64(s) ==
    IF s = <<>> THEN NumErr
    ELSE LET neg == Head(s) = "-"
             r   == IF Head(s) = "+" \/ Head(s) = "-" THEN Tail(s) ELSE s
             ni  == EatDigits(r, 1)
             int == SubSeq(r, 1, ni)
         IN  IF r = <<>> THEN NumErr
             ELSE IF ni = Len(r) THEN Decimal(neg, int, <<>>)
             ELSE IF r[ni + 1] = "e" \/ r[ni + 1] = "E" THEN
                  IF ni = 0 THEN NumErr ELSE ParseExp(neg, int, <<>>, Rest(r, ni + 2))
             ELSE IF r[ni + 1] = "." THEN
                  LET nf   == EatDigits(r, ni + 2)
                      frac == SubSeq(r, ni + 2, ni + 1 + nf)
                  IN  IF ni = 0 /\ nf = 0 THEN NumErr
                      ELSE IF ni + 1 + nf = Len(r) THEN Decimal(neg, int, frac)
                      ELSE IF r[ni + 2 + nf] = "e" \/ r[ni + 2 + nf] = "E"
                           THEN ParseExp(neg, int, frac, Rest(r, ni + 3 + nf))
                      ELSE NumErr
             ELSE IF r = <<"i", "n", "f">> THEN NumOk(neg, r, <<>>)
             ELSE IF r = <<"N", "a", "N">> THEN NumOk(neg, r, <<>>)
             ELSE NumErr

\* u64::to_string and i64::to_string
IntToString(neg, int) == (IF neg THEN <<"-">> ELSE <<>>) \o int

\* f64::to_string: the shortest decimal, with no `.0` on an integral value
F64ToString(neg, int, frac) ==
    (IF neg THEN <<"-">> ELSE <<>>) \o int
        \o (IF frac = <<>> THEN <<>> ELSE <<".">> \o frac)

---------------------------------------------------------------------------
(* simd_json::OwnedValue as a field value, and InfluxDatapoint             *)

StringValue(s) == [t |-> "String", neg |-> FALSE, int |-> <<>>, frac |-> <<>>, s |-> s, b |-> FALSE]
F64Value(neg, int, frac) == [t |-> "F64", neg |-> neg, int |-> int, frac |-> frac, s |-> <<>>, b |-> FALSE]
I64Value(neg, int) == [t |-> "I64", neg |-> neg, int |-> int, frac |-> <<>>, s |-> <<>>, b |-> FALSE]
BoolValue(b) == [t |-> "Bool", neg |-> FALSE, int |-> <<>>, frac |-> <<>>, s |-> <<>>, b |-> b]
NullValue == [t |-> "Null", neg |-> FALSE, int |-> <<>>, frac |-> <<>>, s |-> <<>>, b |-> FALSE]
ObjectValue == [t |-> "Object", neg |-> FALSE, int |-> <<>>, frac |-> <<>>, s |-> <<>>, b |-> FALSE]
ArrayValue == [t |-> "Array", neg |-> FALSE, int |-> <<>>, frac |-> <<>>, s |-> <<>>, b |-> FALSE]

\* HashMap::new() and HashMap::insert (a later insert of a key replaces it)
EmptyMap == <<>>
\* Mutant of Insert: a key that is in the map keeps its value.
InsertIfAbsent(m, k, v) == [x \in DOMAIN m \cup {k} |-> IF x \in DOMAIN m THEN m[x] ELSE v]

Insert(m, k, v) == [x \in DOMAIN m \cup {k} |-> IF x = k THEN v ELSE m[x]]

InfluxDatapoint(m, tags, fields, ts) ==
    [measurement |-> m, tags |-> tags, fields |-> fields, timestamp |-> ts]

NoPoint == InfluxDatapoint(<<>>, EmptyMap, EmptyMap, <<>>)

Ok(dp) == [ok |-> TRUE, dp |-> dp, err |-> ""]
Err(msg) == [ok |-> FALSE, dp |-> NoPoint, err |-> msg]

---------------------------------------------------------------------------
(* The value classifier: parse_string, float_or_bool, parse_value          *)

ValOk(val, c, pos) == [ok |-> TRUE, val |-> val, c |-> c, pos |-> pos, err |-> ""]
ValErr(msg, pos) == [ok |-> FALSE, val |-> NullValue, c |-> NoChar, pos |-> pos, err |-> msg]

\* Mutant of AfterString: whatever character follows the closing quote is
\* returned as the terminator.
AfterStringAnyEnd(s, r) ==
    IF ~r.ok THEN ValErr(r.err, r.pos)
    ELSE IF r.pos <= Len(s) THEN ValOk(StringValue(r.res), s[r.pos], r.pos + 1)
    ELSE ValErr("Unexpected character after string", r.pos + 1)

\* parse_string after its scan r of the body: the character after the
\* closing quote must be `,` or ` `.
AfterString(s, r) ==
    IF ~r.ok THEN ValErr(r.err, r.pos)
    ELSE IF r.pos <= Len(s) /\ s[r.pos] = COMMA THEN ValOk(StringValue(r.res), COMMA, r.pos + 1)
    ELSE IF r.pos <= Len(s) /\ s[r.pos] = SP THEN ValOk(StringValue(r.res), SP, r.pos + 1)
    ELSE ValErr("Unexpected character after string", r.pos + 1)

\* parse_string: the body up to the closing quote, then `,` or ` `.
parse_string(s, i) == AfterString(s, parse_to_char(s, i, DQ))

TrueLiterals ==
    {<<"t">>, <<"T">>, <<"t","r","u","e">>, <<"T","r","u","e">>, <<"T","R","U","E">>}

FalseLiterals ==
    {<<"f">>, <<"F">>, <<"f","a","l","s","e">>, <<"F","a","l","s","e">>,
     <<"F","A","L","S","E">>}

\* OwnedValue::F64(s.parse()?) on the parse result f
FloatResult(f) ==
    IF f.ok THEN [ok |-> TRUE, val |-> F64Value(f.neg, f.int, f.frac)]
    ELSE [ok |-> FALSE, val |-> NullValue]

Lower(c) ==
    CASE c = "T" -> "t" [] c = "R" -> "r" [] c = "U" -> "u" [] c = "E" -> "e"
      [] c = "F" -> "f" [] c = "A" -> "a" [] c = "L" -> "l" [] c = "S" -> "s"
      [] OTHER -> c

\* Mutant of float_or_bool: the literals are matched without regard to case.
float_or_bool_nocase(tok) ==
    IF [j \in 1..Len(tok) |-> Lower(tok[j])] \in {<<"t">>, <<"t","r","u","e">>}
    THEN [ok |-> TRUE, val |-> BoolValue(TRUE)]
    ELSE IF [j \in 1..Len(tok) |-> Lower(tok[j])] \in {<<"f">>, <<"f","a","l","s","e">>}
    THEN [ok |-> TRUE, val |-> BoolValue(FALSE)]
    ELSE FloatResult(ParseF64(tok))

\* float_or_bool: Result<OwnedValue> as [ok, val]
float_or_bool(tok) ==
    IF tok \in TrueLiterals THEN [ok |-> TRUE, val |-> BoolValue(TRUE)]
    ELSE IF tok \in FalseLiterals THEN [ok |-> TRUE, val |-> BoolValue(FALSE)]
    ELSE FloatResult(ParseF64(tok))

\* Mutant of IntegerResult: the suffix is dropped and the token read as a float.
IntegerResultAsFloat(n, c, pos) ==
    IF n.ok THEN ValOk(F64Value(n.neg, n.int, <<>>), c, pos)
    ELSE ValErr("invalid digit found in string", pos)

\* OwnedValue::I64(res.parse()?) on the parse result n, with the terminator c
IntegerResult(n, c, pos) ==
    IF n.ok THEN ValOk(I64Value(n.neg, n.int), c, pos)
    ELSE ValErr("invalid digit found in string", pos)

\* The value of a token that an `i` and then the terminator c followed.
IntegerToken(res, c, pos) == IntegerResult(ParseI64(res), c, pos)

\* float_or_bool(&res)? on its result v, with the terminator c
PlainResult(v, c, pos) ==
    IF v.ok THEN ValOk(v.val, c, pos) ELSE ValErr("invalid float literal", pos)

\* The value of a token that the terminator c ended.
PlainToken(res, c, pos) == PlainResult(float_or_bool(res), c, pos)

RECURSIVE ValueLoop(_, _, _)
\* The `while let Some(c) = chars.next()` loop of parse_value.
ValueLoop(s, i, res) ==
    IF i > Len(s) THEN ValErr("Unexpected character or end of value definition", i)
    ELSE LET c == s[i] IN
         IF c = COMMA \/ c = SP THEN PlainToken(res, c, i + 1)
         ELSE IF c = "i" THEN
              IF i + 1 > Len(s) THEN ValErr("Unexpected end of line", i + 1)
              ELSE IF s[i + 1] = SP \/ s[i + 1] = COMMA
                   THEN IntegerToken(res, s[i + 1], i + 2)
              ELSE ValErr("Unexpected character, expected ' ' or ','.", i + 2)
         ELSE IF c = BS THEN
              IF i + 1 <= Len(s) THEN ValueLoop(s, i + 2, Append(res, s[i + 1]))
              ELSE ValueLoop(s, i + 1, res)
         ELSE ValueLoop(s, i + 1, Append(res, c))

parse_value(s, i) ==
    IF i > Len(s) THEN ValErr("Unexpected end of values", i)
    ELSE IF s[i] = DQ THEN parse_string(s, i + 1)
    ELSE IF s[i] = SP \/ s[i] = COMMA THEN ValErr("Unexpected end of values", i + 1)
    ELSE ValueLoop(s, i + 1, <<s[i]>>)

---------------------------------------------------------------------------
(* The line parser: parse_fields, parse_tags, parse                        *)

MapOk(map, pos) == [ok |-> TRUE, map |-> map, pos |-> pos, err |-> ""]
MapErr(msg, pos) == [ok |-> FALSE, map |-> EmptyMap, pos |-> pos, err |-> msg]

\* Mutant of FieldStep: the loop returns at a comma as it does at a space.
FieldStepCommaEnds(res, key, v) ==
    IF v.c = COMMA \/ v.c = SP
    THEN [map |-> Insert(res, key, v.val), done |-> TRUE, panic |-> FALSE]
    ELSE [map |-> res, done |-> TRUE, panic |-> TRUE]

\* Mutant of FieldStep: the loop returns at a space before the insert.
FieldStepNoInsert(res, key, v) ==
    IF v.c = COMMA THEN [map |-> Insert(res, key, v.val), done |-> FALSE, panic |-> FALSE]
    ELSE IF v.c = SP THEN [map |-> res, done |-> TRUE, panic |-> FALSE]
    ELSE [map |-> res, done |-> TRUE, panic |-> TRUE]

\* What the field loop does with the value v of `key`, terminated by v.c:
\* the map after the insert, and whether the loop returns.
FieldStep(res, key, v) ==
    IF v.c = COMMA THEN [map |-> Insert(res, key, v.val), done |-> FALSE, panic |-> FALSE]
    ELSE IF v.c = SP THEN [map |-> Insert(res, key, v.val), done |-> TRUE, panic |-> FALSE]
    ELSE [map |-> res, done |-> TRUE, panic |-> TRUE]

RECURSIVE FieldsLoop(_, _, _)

\* The end of one round of the field loop, st being the outcome of its match.
FieldsNext(s, v, st) ==
    IF st.panic THEN MapErr("panic: unreachable", v.pos)
    ELSE IF st.done THEN MapOk(st.map, v.pos)
    ELSE FieldsLoop(s, v.pos, st.map)

\* The field loop after parse_value returned v for the key k.
FieldsValue(s, res, k, v) ==
    IF ~v.ok THEN MapErr(v.err, v.pos) ELSE FieldsNext(s, v, FieldStep(res, k.res, v))

\* The field loop after the scan k of the key.
FieldsKey(s, res, k) ==
    IF ~k.ok THEN MapErr(k.err, k.pos) ELSE FieldsValue(s, res, k, parse_value(s, k.pos))

\* One round of the `loop` of parse_fields with the cursor at i.
FieldsLoop(s, i, res) == FieldsKey(s, res, parse_to_char(s, i, EQ))

parse_fields(s, i) == FieldsLoop(s, i, EmptyMap)

RECURSIVE TagsLoop(_, _, _)

\* Mutant of TagsValue: a value that `=` ends is kept like one a comma ends.
TagsValueAnyEnd(s, res, k, v) ==
    IF ~v.ok THEN MapErr(v.err, v.pos)
    ELSE IF v.c = SP THEN MapOk(Insert(res, k.res, v.res), v.pos)
    ELSE TagsLoop(s, v.pos, Insert(res, k.res, v.res))

\* The tag loop after the scan v of the value of the key k.
TagsValue(s, res, k, v) ==
    IF ~v.ok THEN MapErr(v.err, v.pos)
    ELSE IF v.c = EQ THEN MapErr("= found in tag value", v.pos)
    ELSE IF v.c = SP THEN MapOk(Insert(res, k.res, v.res), v.pos)
    ELSE TagsLoop(s, v.pos, Insert(res, k.res, v.res))

\* Mutant of TagsKey: whatever ends the key, its value is scanned next.
TagsKeyAnyEnd(s, res, k) ==
    IF ~k.ok THEN MapErr(k.err, k.pos)
    ELSE TagsValue(s, res, k, parse_to_char3(s, k.pos, EQ, SP, COMMA))

\* The tag loop after the scan k of the key.
TagsKey(s, res, k) ==
    IF ~k.ok THEN MapErr(k.err, k.pos)
    ELSE IF k.c # EQ THEN MapErr("Tag without value", k.pos)
    ELSE TagsValue(s, res, k, parse_to_char3(s, k.pos, EQ, SP, COMMA))

\* One round of the `loop` of parse_tags with the cursor at i.
TagsLoop(s, i, res) == TagsKey(s, res, parse_to_char3(s, i, EQ, SP, COMMA))

parse_tags(s, i) == TagsLoop(s, i, EmptyMap)

\* Mutant of StripNewlines: one trailing newline at most is removed.
StripOneNewline(data) ==
    IF data # <<>> /\ data[Len(data)] = NL THEN SubSeq(data, 1, Len(data) - 1) ELSE data

RECURSIVE StripNewlines(_)
\* The pop loop at the head of parse: the data without its trailing newlines.
StripNewlines(data) ==
    IF data # <<>> /\ data[Len(data)] = NL
    THEN StripNewlines(SubSeq(data, 1, Len(data) - 1)) ELSE data

\* parse after `chars.as_str().parse()` returned ts
ParseTimestamp(m, tags, fields, ts) ==
    IF ~ts.ok THEN Err("invalid digit found in string")
    ELSE Ok(InfluxDatapoint(m.res, tags.map, fields.map, ts.int))

\* parse after parse_fields returned fields
ParseFields(data, m, tags, fields) ==
    IF ~fields.ok THEN Err(fields.err)
    ELSE ParseTimestamp(m, tags, fields, ParseU64(Rest(data, fields.pos)))

\* parse after the tag region
ParseTags(data, m, tags) ==
    IF ~tags.ok THEN Err(tags.err)
    ELSE ParseFields(data, m, tags, parse_fields(data, tags.pos))

\* parse after the scan m of the measurement
ParseMeasurement(data, m) ==
    IF ~m.ok THEN Err(m.err)
    ELSE ParseTags(data, m, IF m.c = COMMA THEN parse_tags(data, m.pos)
                            ELSE MapOk(EmptyMap, m.pos))

\* Mutant of ParseLine: the data goes to the scanner even when it is empty.
ParseLineUnchecked(data) == ParseMeasurement(data, parse_to_char2(data, 1, COMMA, SP))

\* parse on the data without its trailing newlines
ParseLine(data) ==
    IF data = <<>> THEN Err("Empty.")
    ELSE ParseMeasurement(data, parse_to_char2(data, 1, COMMA, SP))

\* parse: &str -> Result<InfluxDatapoint>
parse(input) == ParseLine(StripNewlines(input))

---------------------------------------------------------------------------
(* The serialiser: InfluxDatapoint::try_to_bytes                           *)

\* Mutant of FieldText: a value that is no scalar is written as `null`.
FieldTextLenient(field) ==
    IF field.t = "String" THEN [ok |-> TRUE, text |-> process_string(field.s)]
    ELSE IF field.t = "F64"
         THEN [ok |-> TRUE, text |-> F64ToString(field.neg, field.int, field.frac)]
    ELSE IF field.t = "I64" THEN [ok |-> TRUE, text |-> IntToString(field.neg, field.int)]
    ELSE IF field.t = "Bool"
         THEN [ok |-> TRUE, text |-> IF field.b THEN <<"t","r","u","e">>
                                     ELSE <<"f","a","l","s","e">>]
    ELSE [ok |-> TRUE, text |-> <<"n","u","l","l">>]

\* Mutant of FieldText: an integer is written with the suffix `i`.
FieldTextSuffixed(field) ==
    IF field.t = "String" THEN [ok |-> TRUE, text |-> process_string(field.s)]
    ELSE IF field.t = "F64"
         THEN [ok |-> TRUE, text |-> F64ToString(field.neg, field.int, field.frac)]
    ELSE IF field.t = "I64"
         THEN [ok |-> TRUE, text |-> IntToString(field.neg, field.int) \o <<"i">>]
    ELSE IF field.t = "Bool"
         THEN [ok |-> TRUE, text |-> IF field.b THEN <<"t","r","u","e">>
                                     ELSE <<"f","a","l","s","e">>]
    ELSE [ok |-> FALSE, text |-> <<>>]

\* The match on a field value: Result<String> as [ok, text]
FieldText(field) ==
    IF field.t = "String" THEN [ok |-> TRUE, text |-> process_string(field.s)]
    ELSE IF field.t = "F64"
         THEN [ok |-> TRUE, text |-> F64ToString(field.neg, field.int, field.frac)]
    ELSE IF field.t = "I64" THEN [ok |-> TRUE, text |-> IntToString(field.neg, field.int)]
    ELSE IF field.t = "Bool"
         THEN [ok |-> TRUE, text |-> IF field.b THEN <<"t","r","u","e">>
                                     ELSE <<"f","a","l","s","e">>]
    ELSE [ok |-> FALSE, text |-> <<>>]

TagEntry(key, value) == escape(key) \o <<EQ>> \o escape(value)

FieldEntry(key, text) == escape(key) \o <<EQ>> \o text

\* Mutant of TagsPart: the comma follows the measurement whatever the tags.
TagsPartAlways(tags) == <<COMMA>> \o tags

\* The joined tags as they follow the measurement: nothing when there are none.
TagsPart(tags) == IF tags # <<>> THEN <<COMMA>> \o tags ELSE <<>>

\* The separator between two fields in the output.
FieldSeparator == <<SP>>

\* Mutant of try_to_bytes: a DataPoint without a field is refused.
try_to_bytes_checked(dp, torder, forder) ==
    LET tag_collection == [j \in 1..Len(torder) |-> TagEntry(torder[j], dp.tags[torder[j]])]
        tags == Join(tag_collection, <<COMMA>>)
        head == escape(dp.measurement) \o TagsPart(tags) \o <<SP>>
        texts == [j \in 1..Len(forder) |-> FieldText(dp.fields[forder[j]])]
        field_collection == [j \in 1..Len(forder) |-> FieldEntry(forder[j], texts[j].text)]
    IN  IF forder = <<>> \/ \E j \in 1..Len(forder) : ~texts[j].ok
        THEN [ok |-> FALSE, out |-> <<>>, err |-> "Arrays are not supported for field values"]
        ELSE [ok |-> TRUE,
              out |-> head \o Join(field_collection, FieldSeparator) \o <<SP>>
                        \o IntToString(FALSE, dp.timestamp),
              err |-> ""]

\* try_to_bytes, the maps being iterated in the orders torder and forder
try_to_bytes(dp, torder, forder) ==
    LET tag_collection == [j \in 1..Len(torder) |-> TagEntry(torder[j], dp.tags[torder[j]])]
        tags == Join(tag_collection, <<COMMA>>)
        head == escape(dp.measurement) \o TagsPart(tags) \o <<SP>>
        texts == [j \in 1..Len(forder) |-> FieldText(dp.fields[forder[j]])]
        field_collection == [j \in 1..Len(forder) |-> FieldEntry(forder[j], texts[j].text)]
    IN  IF \E j \in 1..Len(forder) : ~texts[j].ok
        THEN [ok |-> FALSE, out |-> <<>>, err |-> "Arrays are not supported for field values"]
        ELSE [ok |-> TRUE,
              out |-> head \o Join(field_collection, FieldSeparator) \o <<SP>>
                        \o IntToString(FALSE, dp.timestamp),
              err |-> ""]

---------------------------------------------------------------------------
(* Bounds and the inputs of the model                                      *)

\* The longest free part of an input line.
MaxMid == 3
\* The longest measurement, tag key, tag value, field key or string value of
\* a DataPoint handed to encode.
MaxName == 1
\* The longest text of the scanner exercise.
MaxText == 3

LineChars == {"a", "0", "1", "i", "t", COMMA, SP, EQ, BS, DQ, NL, "-", "."}

TagValuePrefix == <<"a", COMMA, "a", EQ>>
TagValueSuffix == <<SP, "a", EQ, "1", SP, "1">>

\* The places of a line where the free part stands: as the whole line, as
\* the measurement, in the tag region, in the field region, as a field
\* value before a space and before a comma, as a second field, as the
\* timestamp, and as a tag value.
Contexts ==
    { [pre |-> <<>>, suf |-> <<>>],
      [pre |-> <<>>, suf |-> <<SP, "a", EQ, "1", SP, "1">>],
      [pre |-> <<"a", COMMA>>, suf |-> <<SP, "a", EQ, "1", SP, "1">>],
      [pre |-> <<"a", SP>>, suf |-> <<SP, "1">>],
      [pre |-> <<"a", SP, "a", EQ>>, suf |-> <<SP, "1">>],
      [pre |-> <<"a", SP, "a", EQ>>, suf |-> <<COMMA, "t", EQ, "1", SP, "1">>],
      [pre |-> <<"a", SP, "a", EQ, "1", COMMA>>, suf |-> <<SP, "1">>],
      [pre |-> <<"a", SP, "a", EQ, "1", SP>>, suf |-> <<>>],
      [pre |-> TagValuePrefix, suf |-> TagValueSuffix] }

\* Every case pattern of every prefix of the two boolean words, as tokens.
RECURSIVE CasePatterns(_, _)
CasePatterns(lower, upper) ==
    IF lower = <<>> THEN {<<>>}
    ELSE LET n == Len(lower)
             shorter == CasePatterns(SubSeq(lower, 1, n - 1), SubSeq(upper, 1, n - 1))
         IN  shorter \cup {Append(w, c) : w \in {x \in shorter : Len(x) = n - 1},
                                          c \in {lower[n], upper[n]}}

BoolTokens ==
    (CasePatterns(<<"t","r","u","e">>, <<"T","R","U","E">>)
       \cup CasePatterns(<<"f","a","l","s","e">>, <<"F","A","L","S","E">>)) \ {<<>>}

ValuePrefix == <<"a", SP, "a", EQ>>
ValueSuffix == <<SP, "1">>
ValueSuffixes == {ValueSuffix, <<COMMA, "t", EQ, "1", SP, "1">>}

\* Number tokens the free parts do not spell: a `+` sign, two digits, an
\* exponent, and the integers at the two ends of the i64 range and past them.
NumberTokens ==
    { <<"+", "1">>, <<"+", "1", "i">>, <<"8", "2">>, <<"8", "2", "i">>,
      <<"1", "e", "1">>, <<"2", ".", "5", "E", "-", "1">>,
      I64Max \o <<"i">>, I64MinAbs \o <<"i">>,
      <<"-">> \o I64MinAbs \o <<"i">>,
      <<"-">> \o SubSeq(I64MinAbs, 1, 18) \o <<"9", "i">> }

TimestampPrefix == <<"a", SP, "a", EQ, "1", SP>>

\* Remainders of a line the free parts do not spell: a `+` sign, letters,
\* and the numbers at the end of the u64 range and past it.
TimestampTokens ==
    { <<"+">>, <<"+", "1">>, <<"+", "0", "1">>, <<"-", "0">>, <<"1", "+">>,
      <<"1", "e", "1">>, <<"0", "x", "1">>, <<"1", "_", "0">>,
      U64Max, <<"0">> \o U64Max, <<"+">> \o U64Max,
      SubSeq(U64Max, 1, 19) \o <<"6">>, U64Max \o <<"0">> }

\* Value tokens with an `i` that no digit precedes.
SpecialTokens ==
    { <<"i", "n", "f">>, <<"-", "i", "n", "f">>, <<"+", "i", "n", "f">>,
      <<"i", "n", "f", "i">>, <<"i", "1", "i">> }

\* The heads of the lines that end early: in the measurement, in a tag key,
\* in a tag value, in a field key, in an unquoted value, in a string, in a
\* second field key, and in the timestamp.
EndPrefixes ==
    { <<>>, <<"a", COMMA>>, TagValuePrefix, <<"a", SP>>, ValuePrefix,
      ValuePrefix \o <<DQ>>, <<"a", SP, "a", EQ, "1", COMMA>>, TimestampPrefix }

EndChars == {"a", "1", "i", BS, DQ, EQ}

\* The lines that end early: a head and a text without space or comma.
EndedLines == {pre \o mid : pre \in EndPrefixes, mid \in Strs(EndChars, MaxMid)}

\* The key texts of the lines that repeat a key: `\=` is read as the key
\* `=` in a tag and in a field, `\\` as the key `\`.
KeyTexts == {<<"a">>, <<"t">>, <<BS, EQ>>, <<BS, BS>>}

\* `a,<k1>=0,<k2>=1 a=1 1`: two tags, of the same key when k1 = k2.
TwoTagsLine(k1, k2) ==
    <<"a", COMMA>> \o k1 \o <<EQ, "0", COMMA>> \o k2 \o <<EQ, "1">> \o TagValueSuffix

\* `a <k1>=0,<k2>=1i 1`: two fields, of the same key when k1 = k2.
TwoFieldsLine(k1, k2) ==
    <<"a", SP>> \o k1 \o <<EQ, "0", COMMA>> \o k2 \o <<EQ, "1", "i", SP, "1">>

RepeatedKeyLines ==
    {TwoTagsLine(k1, k2) : k1 \in KeyTexts, k2 \in KeyTexts}
      \cup {TwoFieldsLine(k1, k2) : k1 \in KeyTexts, k2 \in KeyTexts}

\* The lines that are listed: the lines that repeat a key, the lines that
\* end early, the timestamp tokens and the value tokens in their places.
ListedLines ==
    RepeatedKeyLines
      \cup EndedLines
      \cup {TimestampPrefix \o tok : tok \in TimestampTokens}
      \cup {ValuePrefix \o tok \o suf : tok \in BoolTokens \cup NumberTokens \cup SpecialTokens,
                                        suf \in ValueSuffixes}

\* The line of a free part in its place.
ContextLine(c, mid) == c.pre \o mid \o c.suf

NameChars == {"a", COMMA, SP, EQ, BS, DQ}
Names == Strs(NameChars, MaxName)

One == <<"1">>
A == <<"a">>
B == <<"b">>
C == <<"c">>

Values ==
    { I64Value(FALSE, One), I64Value(TRUE, <<"8", "2">>),
      F64Value(FALSE, One, <<>>), F64Value(FALSE, <<"8", "2">>, <<>>),
      F64Value(TRUE, <<"0">>, <<"2", "5">>),
      BoolValue(TRUE), BoolValue(FALSE), NullValue, ArrayValue, ObjectValue }
      \cup {StringValue(s) : s \in Names}

FewValues == {I64Value(FALSE, One), F64Value(FALSE, One, <<>>), StringValue(A), NullValue}

\* The strings of the string fields handed to encode.
Texts == Strs(NameChars, MaxText)

Maps(keys, values) == UNION {[ks -> values] : ks \in SUBSET keys}

\* The DataPoints handed to encode: every name as the measurement, every
\* single tag, one to three plain tags, every single field, up to three
\* fields of a few values, every text as the measurement and as the
\* string of a single field, and every name without tags and fields.
Points ==
    {InfluxDatapoint(m, EmptyMap, (A :> F64Value(FALSE, One, <<>>)), One) : m \in Names}
      \cup {InfluxDatapoint(A, (k :> v), (A :> BoolValue(TRUE)), <<"0">>) :
               k \in Names, v \in Names}
      \cup {InfluxDatapoint(A, tags, (A :> StringValue(A)), One) : tags \in Maps({A, B, C}, {A})}
      \cup {InfluxDatapoint(A, EmptyMap, (k :> v), One) : k \in Names, v \in Values}
      \cup {InfluxDatapoint(A, (A :> B), fields, <<"8", "2">>) :
               fields \in Maps({A, B, C}, FewValues)}
      \cup {InfluxDatapoint(s, EmptyMap, (A :> StringValue(s)), One) : s \in Texts}
      \cup {InfluxDatapoint(m, EmptyMap, EmptyMap, One) : m \in Names}

---------------------------------------------------------------------------
(* The codec as a pipeline: Codec::decode and Codec::encode                *)

NoIter == [tags |-> <<>>, fields |-> <<>>, encoded |-> FALSE]

ScanIdle ==
    [stage |-> "idle", region |-> "none", text |-> <<>>, term |-> NoChar,
     escaped |-> <<>>, result |-> ScanErr("", 0)]

Init ==
    /\ scan = ScanIdle
    /\ last = "init"
    /\ prev = NoPoint
    /\ iter = NoIter
    /\ \/ /\ origin = "bytes"
          /\ pc = "bytes"
          /\ \/ bytes \in ListedLines
             \/ \E c \in Contexts, mid \in Strs(LineChars, MaxMid) :
                   bytes = ContextLine(c, mid)
          /\ cur = Err("")
       \/ /\ origin = "point"
          /\ pc = "point"
          /\ bytes = <<>>
          /\ cur \in {Ok(x) : x \in Points}

\* impl Codec for Influx: decode
Decode ==
    /\ pc = "bytes"
    /\ cur' = parse(bytes)
    /\ pc' = IF cur'.ok THEN "point" ELSE "failed"
    /\ last' = "decode"
    /\ UNCHANGED <<origin, bytes, prev, iter, scan>>

\* impl Codec for Influx: encode, the hash maps iterating in some order
Encode ==
    /\ pc = "point"
    /\ ~iter.encoded
    /\ \E torder \in Orders(DOMAIN cur.dp.tags), forder \in Orders(DOMAIN cur.dp.fields) :
          LET r == try_to_bytes(cur.dp, torder, forder) IN
          /\ bytes' = r.out
          /\ pc' = IF r.ok THEN "bytes" ELSE "failed"
          /\ iter' = [tags |-> torder, fields |-> forder, encoded |-> TRUE]
    /\ prev' = cur.dp
    /\ last' = "encode"
    /\ UNCHANGED <<origin, cur, scan>>

Next == Decode \/ Encode

Spec == Init /\ [][Next]_vars

---------------------------------------------------------------------------
(* The escaper against the scanner, region by region                       *)

Regions == {"measurement", "tag key", "tag value", "field key"}

\* The characters that end a region in the output of try_to_bytes.
Terminators(region) ==
    IF region = "measurement" \/ region = "tag value" THEN {COMMA, SP} ELSE {EQ}

\* The scan the parser applies to a region: parse (measurement), parse_tags
\* (tag key and value), parse_fields (field key).
RegionScan(region, s) ==
    IF region = "measurement" THEN parse_to_char2(s, 1, COMMA, SP)
    ELSE IF region = "field key" THEN parse_to_char(s, 1, EQ)
    ELSE parse_to_char3(s, 1, EQ, SP, COMMA)

InitScan ==
    /\ origin = "scan"
    /\ pc = "scan"
    /\ last = "init"
    /\ bytes = <<>>
    /\ cur = Err("")
    /\ prev = NoPoint
    /\ iter = NoIter
    /\ scan \in {[stage |-> "text", region |-> r, text |-> s, term |-> c,
                  escaped |-> <<>>, result |-> ScanErr("", 0)] :
                    r \in Regions, s \in Strs(NameChars, MaxText), c \in {COMMA, SP, EQ}}
    /\ scan.term \in Terminators(scan.region)

\* try_to_bytes writes the escaped text of the region and its terminator.
EscapeText ==
    /\ scan.stage = "text"
    /\ scan' = [scan EXCEPT !.stage = "escaped",
                            !.escaped = escape(scan.text) \o <<scan.term>>]
    /\ UNCHANGED <<origin, pc, last, bytes, cur, prev, iter>>

\* The parser scans the region back.
ScanText ==
    /\ scan.stage = "escaped"
    /\ scan' = [scan EXCEPT !.stage = "scanned",
                            !.result = RegionScan(scan.region, scan.escaped)]
    /\ UNCHANGED <<origin, pc, last, bytes, cur, prev, iter>>

NextScan == EscapeText \/ ScanText

SpecScan == InitScan /\ [][NextScan]_vars

---------------------------------------------------------------------------
(* Properties of the round trip                                            *)

\* The first decode of a run that started from a line has returned.
FirstDecoded == origin = "bytes" /\ last = "decode" /\ ~iter.encoded

\* A decode has returned a DataPoint.
DecodedPoint == last = "decode" /\ pc = "point"

Scalar(v) == v.t \in {"I64", "F64", "Bool", "String"}

\* A DataPoint of the data model: a non-empty measurement, non-empty keys,
\* one field at least, and scalar field values.
WellFormed(x) ==
    /\ x.measurement # <<>>
    /\ DOMAIN x.fields # {}
    /\ \A k \in DOMAIN x.tags : k # <<>>
    /\ \A k \in DOMAIN x.fields : k # <<>> /\ Scalar(x.fields[k])

\* C1: for every DataPoint x with a non-empty measurement, non-empty tag and
\* field keys and scalar field values, encode(x) succeeds and
\* decode(encode(x)) is x, the maps compared as maps and Integer kept apart
\* from Float.
C1_RoundTrip ==
    (origin = "point" /\ iter.encoded /\ WellFormed(prev)) =>
        /\ last = "encode" => pc = "bytes"
        /\ last = "decode" => cur = Ok(prev)

\* C2: for every line on which decode succeeds with result d, encode(d)
\* succeeds, and decode(encode(d)) succeeds and is d.
C2_DecodeImageIdempotent ==
    (origin = "bytes" /\ iter.encoded) =>
        /\ last = "encode" => pc = "bytes"
        /\ last = "decode" => cur = Ok(prev)

\* C3: a DataPoint with two or more (scalar) fields is encoded with single
\* spaces between the fields, and decoding that output succeeds and yields
\* all of its fields.
C3_MultiFieldRoundTrip ==
    (iter.encoded /\ Cardinality(DOMAIN prev.fields) >= 2
       /\ \A k \in DOMAIN prev.fields : Scalar(prev.fields[k])) =>
        /\ last = "encode" => pc = "bytes"
        /\ last = "decode" => cur.ok /\ DOMAIN cur.dp.fields = DOMAIN prev.fields

---------------------------------------------------------------------------
(* Properties of the value classifier                                      *)

\* The line is `a a=<text><suf>`: the value of its field a is <text>.
HasValueShape(line, suf) ==
    /\ Len(line) >= Len(ValuePrefix) + Len(suf)
    /\ SubSeq(line, 1, Len(ValuePrefix)) = ValuePrefix
    /\ SubSeq(line, Len(line) - Len(suf) + 1, Len(line)) = suf

ValueText(line, suf) == SubSeq(line, Len(ValuePrefix) + 1, Len(line) - Len(suf))

\* The text holds no terminator: it is one token.
OneToken(tok) == tok # <<>> /\ \A j \in 1..Len(tok) : tok[j] \notin {COMMA, SP}

\* An optional sign and then one digit at least.
SignedDecimal(tok) ==
    /\ tok # <<>>
    /\ IF tok[1] \in {"+", "-"} THEN Len(tok) > 1 /\ IsDigits(Tail(tok)) ELSE IsDigits(tok)

\* The number a signed decimal token denotes: its magnitude and its sign.
Magnitude(tok) == StripZeros(IF tok[1] \in {"+", "-"} THEN Tail(tok) ELSE tok)
Negative(tok) == tok[1] = "-" /\ Magnitude(tok) # <<"0">>

EndsWithI(tok) == tok # <<>> /\ tok[Len(tok)] = "i"
Front(tok) == SubSeq(tok, 1, Len(tok) - 1)

\* The token denotes a value of i64.
FitsI64(tok) == NumLeq(Magnitude(tok), IF tok[1] = "-" THEN I64MinAbs ELSE I64Max)

IntegerSuffixRule(tok) ==
    /\ (EndsWithI(tok) /\ SignedDecimal(Front(tok)) /\ FitsI64(Front(tok))) =>
          /\ cur.ok
          /\ cur.dp.fields[A] = I64Value(Negative(Front(tok)), Magnitude(Front(tok)))
    /\ SignedDecimal(tok) =>
          /\ cur.ok
          /\ cur.dp.fields[A] = F64Value(Negative(tok), Magnitude(tok), <<>>)
    /\ (OneToken(tok) /\ cur.ok) =>
          /\ cur.dp.fields[A].t = "I64" => EndsWithI(tok)
          /\ cur.dp.fields[A].t = "F64" => ~EndsWithI(tok)

\* C4: an unquoted field value that is a signed decimal token (of an i64
\* value), the literal `i`, and then `,` or a space decodes to the Integer of
\* the token; the same token without the `i` decodes to the Float; decode
\* yields no Integer for a token without the suffix and no Float for a token
\* with it.
C4_IntegerSuffixRule ==
    FirstDecoded =>
        \A suf \in ValueSuffixes :
            HasValueShape(bytes, suf) => IntegerSuffixRule(ValueText(bytes, suf))

\* Reached: `a a=-1i,t=1 1` has decoded to a = Integer(-1).
C4_Witness ==
    /\ FirstDecoded
    /\ bytes = ValuePrefix \o <<"-", "1", "i">> \o <<COMMA, "t", EQ, "1", SP, "1">>
    /\ cur.ok
    /\ cur.dp.fields[A] = I64Value(TRUE, One)

\* The last field that encode visited is an integer.
LastFieldIsInteger ==
    /\ iter.fields # <<>>
    /\ prev.fields[iter.fields[Len(iter.fields)]].t = "I64"

LastField == prev.fields[iter.fields[Len(iter.fields)]]

EndsWith(s, tail) ==
    Len(s) >= Len(tail) /\ SubSeq(s, Len(s) - Len(tail) + 1, Len(s)) = tail

\* C5: encode writes every Integer(n) field value as the decimal digits of n
\* and then the suffix `i` (stated of the last field written, which the
\* space and the timestamp follow).
C5_IntegerRenderedWithSuffix ==
    (last = "encode" /\ pc = "bytes" /\ LastFieldIsInteger) =>
        EndsWith(bytes, <<EQ>> \o IntToString(LastField.neg, LastField.int)
                          \o <<"i", SP>> \o prev.timestamp)

\* The DataPoint x with its field k turned from an integral float into the
\* equal integer, or from an integer into the equal float.
Swapped(x, k) ==
    [x EXCEPT !.fields[k] =
        IF @.t = "F64" THEN I64Value(@.neg, @.int) ELSE F64Value(@.neg, @.int, <<>>)]

Integral(v) == (v.t = "F64" /\ v.frac = <<>>) \/ v.t = "I64"

\* C6: encoding a DataPoint whose field holds an integral float (82.0) gives
\* the bytes of encoding the same DataPoint with the equal integer (82) in
\* that field, the maps being visited in the same order.
C6_IntegralFloatAsInteger ==
    (last = "encode" /\ pc = "bytes") =>
        \A k \in DOMAIN prev.fields :
            Integral(prev.fields[k]) =>
                try_to_bytes(Swapped(prev, k), iter.tags, iter.fields).out = bytes

\* Reached: a DataPoint with the field a = Float(82.0) has been encoded.
C6_Witness ==
    /\ last = "encode"
    /\ pc = "bytes"
    /\ A \in DOMAIN prev.fields
    /\ prev.fields[A] = F64Value(FALSE, <<"8", "2">>, <<>>)
    /\ bytes = <<"a", SP, "a", EQ, "8", "2", SP, "1">>

\* C7: on every input on which decode succeeds, the fields map of the result
\* holds one entry at least.
C7_FieldsNonEmpty == DecodedPoint => DOMAIN cur.dp.fields # {}

\* Reached: a line has decoded to a DataPoint with two fields.
C7_Witness == FirstDecoded /\ cur.ok /\ Cardinality(DOMAIN cur.dp.fields) = 2

\* C8: on every input on which decode succeeds, the measurement, every tag
\* key and every field key of the result is a non-empty string.
C8_NamesNonEmpty ==
    DecodedPoint =>
        /\ cur.dp.measurement # <<>>
        /\ \A k \in DOMAIN cur.dp.tags : k # <<>>
        /\ \A k \in DOMAIN cur.dp.fields : k # <<>>

\* The ten boolean literals of the line protocol.
TrueTokens ==
    {<<"t">>, <<"T">>, <<"t","r","u","e">>, <<"T","r","u","e">>, <<"T","R","U","E">>}
FalseTokens ==
    {<<"f">>, <<"F">>, <<"f","a","l","s","e">>, <<"F","a","l","s","e">>,
     <<"F","A","L","S","E">>}

\* The value of the field a that the decode returned is the boolean b.
DecodedBool(b) == cur.ok /\ A \in DOMAIN cur.dp.fields /\ cur.dp.fields[A] = BoolValue(b)

\* C9: an unquoted field token (written without a backslash) decodes to
\* Bool(true) iff it is one of t, T, true, True, TRUE and to Bool(false) iff
\* it is one of f, F, false, False, FALSE; no other token decodes to a
\* boolean.
C9_BooleanLiterals ==
    FirstDecoded =>
        \A suf \in ValueSuffixes :
            (/\ HasValueShape(bytes, suf)
             /\ OneToken(ValueText(bytes, suf))
             /\ \A j \in 1..Len(ValueText(bytes, suf)) : ValueText(bytes, suf)[j] # BS) =>
                /\ DecodedBool(TRUE) <=> ValueText(bytes, suf) \in TrueTokens
                /\ DecodedBool(FALSE) <=> ValueText(bytes, suf) \in FalseTokens

\* Reached: `a a=False 1` has decoded to a = Bool(false).
C9_Witness ==
    /\ FirstDecoded
    /\ bytes = ValuePrefix \o <<"F","a","l","s","e">> \o ValueSuffix
    /\ DecodedBool(FALSE)

---------------------------------------------------------------------------
(* Properties of the escaper against the scanner                           *)

\* C10: in each region but the string value, the parser's scan of the
\* serialiser's escaped text followed by the region's terminator returns
\* exactly the text (and stops at that terminator), also for a text that
\* holds `=`, `"`, `,`, a space or a backslash.
C10_EscapeInversion ==
    scan.stage = "scanned" =>
        /\ scan.result.ok
        /\ scan.result.res = scan.text
        /\ scan.result.c = scan.term

---------------------------------------------------------------------------
(* Properties of the serialiser                                            *)

RECURSIVE Backslashed(_, _)
\* The text s with one backslash before each of its characters that is in
\* `set`, and nothing else changed.
Backslashed(s, set) ==
    IF s = <<>> THEN <<>>
    ELSE (IF Head(s) \in set THEN <<BS, Head(s)>> ELSE <<Head(s)>>)
           \o Backslashed(Tail(s), set)

StartsWith(s, head) == Len(s) >= Len(head) /\ SubSeq(s, 1, Len(head)) = head

\* The DataPoint has one field, and it is a string.
SingleStringField(x) ==
    /\ Cardinality(DOMAIN x.fields) = 1
    /\ \A k \in DOMAIN x.fields : x.fields[k].t = "String"

\* The value of the only field of x.
OnlyField(x) == x.fields[CHOOSE k \in DOMAIN x.fields : TRUE]

\* C11: encode writes a field String(s) as `"`, then s with one backslash
\* before each `\` and each `"` and nothing else escaped, then `"`; decoding
\* the line that carries this token yields String(s) unchanged, whatever s
\* holds (`"`, `\`, a space, a comma, `=`).
C11_StringFieldRoundTrip ==
    (iter.encoded /\ SingleStringField(prev)) =>
        /\ pc # "failed"
        /\ EndsWith(bytes, <<EQ, DQ>> \o Backslashed(OnlyField(prev).s, {BS, DQ})
                             \o <<DQ, SP>> \o prev.timestamp)
        /\ last = "decode" =>
              /\ cur.ok
              /\ Cardinality(DOMAIN cur.dp.fields) = 1
              /\ OnlyField(cur.dp) = OnlyField(prev)

\* Reached: the field a = String(`"\,`) was written as `a="\"\\,"` and has
\* been read back.
C11_Witness ==
    /\ origin = "point"
    /\ last = "decode"
    /\ prev.fields = (A :> StringValue(<<DQ, BS, COMMA>>))
    /\ EndsWith(bytes, <<"a", EQ, DQ, BS, DQ, BS, BS, COMMA, DQ, SP, "1">>)
    /\ cur.ok
    /\ cur.dp.fields = prev.fields

\* The characters the serialiser escapes outside a string value.
PolicyChars == {COMMA, SP, BS, EQ, DQ}

\* A tag as the escape policy writes it.
PolicyTag(x, k) == Backslashed(k, PolicyChars) \o <<EQ>> \o Backslashed(x.tags[k], PolicyChars)

\* The output up to the `=` of the first field, by the escape policy: the
\* measurement, the tags in the order of their visit, the first field key.
PolicyHead(x, torder, forder) ==
    Backslashed(x.measurement, PolicyChars)
      \o (IF torder = <<>> THEN <<>>
          ELSE <<COMMA>> \o Join([j \in 1..Len(torder) |-> PolicyTag(x, torder[j])], <<COMMA>>))
      \o <<SP>>
      \o (IF forder = <<>> THEN <<>> ELSE Backslashed(forder[1], PolicyChars) \o <<EQ>>)

\* C12: in the measurement, every tag key, every tag value and every field
\* key of the output (the field key being stated of the field visited
\* first, which any field can be), each `,`, space, `\`, `=` and `"` of the
\* text is written as a backslash and that character, and no other
\* character gets a backslash.
C12_EscapePolicy ==
    (last = "encode" /\ pc = "bytes") =>
        StartsWith(bytes, PolicyHead(prev, iter.tags, iter.fields))

\* Reached: the tag `,` = `"` has been written as `\,=\"`.
C12_Witness ==
    /\ last = "encode"
    /\ pc = "bytes"
    /\ prev.tags = (<<COMMA>> :> <<DQ>>)
    /\ StartsWith(bytes, <<"a", COMMA, BS, COMMA, EQ, BS, DQ, SP, "a", EQ>>)

\* The tags and the fields of the output in the order of their visit.
TagTexts == [j \in 1..Len(iter.tags) |-> TagEntry(iter.tags[j], prev.tags[iter.tags[j]])]
FieldTexts ==
    [j \in 1..Len(iter.fields) |->
        FieldEntry(iter.fields[j], FieldText(prev.fields[iter.fields[j]]).text)]

\* C13: the output is the escaped measurement; then, iff the tag map is not
\* empty, one comma and the key=value tags joined by single commas; then
\* one space; then the key=value fields; then one space; then the decimal
\* timestamp. With an empty tag map no comma follows the measurement.
C13_OutputShape ==
    (last = "encode" /\ pc = "bytes") =>
        \E sep \in {<<SP>>, <<COMMA>>} :
            bytes = escape(prev.measurement)
                      \o (IF DOMAIN prev.tags # {}
                          THEN <<COMMA>> \o Join(TagTexts, <<COMMA>>) ELSE <<>>)
                      \o <<SP>> \o Join(FieldTexts, sep) \o <<SP>> \o prev.timestamp

\* Reached: a DataPoint with the tags a and b, visited in that order, has
\* been written as `a,a=a,b=a a="a" 1`.
C13_Witness ==
    /\ last = "encode"
    /\ pc = "bytes"
    /\ DOMAIN prev.tags = {A, B}
    /\ iter.tags = <<A, B>>
    /\ bytes = <<"a", COMMA, "a", EQ, "a", COMMA, "b", EQ, "a", SP,
                 "a", EQ, DQ, "a", DQ, SP, "1">>

\* C14: encoding a DataPoint of which one field value at least is an array,
\* an object or null fails and returns no bytes, however many of the other
\* fields are scalars and in whatever order the fields are visited.
C14_NonScalarFieldFails ==
    (last = "encode" /\ \E k \in DOMAIN prev.fields : ~Scalar(prev.fields[k])) =>
        pc = "failed" /\ bytes = <<>>

\* Reached: encode failed on a DataPoint of three fields after it had
\* visited two scalar fields and then a null.
C14_Witness ==
    /\ last = "encode"
    /\ pc = "failed"
    /\ Len(iter.fields) = 3
    /\ Scalar(prev.fields[iter.fields[1]])
    /\ Scalar(prev.fields[iter.fields[2]])
    /\ prev.fields[iter.fields[3]] = NullValue

---------------------------------------------------------------------------
(* Properties of the line parser                                           *)

\* The line without its trailing newlines: its longest head that does not
\* end with a newline.
Trimmed(line) ==
    SubSeq(line, 1, CHOOSE n \in 0..Len(line) :
                        /\ n = 0 \/ line[n] # NL
                        /\ \A j \in (n + 1)..Len(line) : line[j] = NL)

\* The line is a measurement without `,`, space or backslash, and then
\* ` a=1 1`.
PlainMeasurementLine(line) ==
    /\ EndsWith(line, TagValueSuffix)
    /\ \A j \in 1..(Len(line) - Len(TagValueSuffix)) : line[j] \notin {COMMA, SP, BS}

\* C15: decoding a line followed by k newlines gives the outcome (the same
\* DataPoint or the same failure) of decoding the line without any of its
\* trailing newlines; nothing but trailing newlines is removed: a newline
\* elsewhere, like any other character, stays in the text it stands in.
C15_TrailingNewlines ==
    FirstDecoded =>
        /\ cur = parse(Trimmed(bytes))
        /\ \A tail \in Strs({NL}, 2) : parse(bytes \o tail) = cur
        /\ PlainMeasurementLine(bytes) =>
              /\ cur.ok
              /\ cur.dp.measurement = SubSeq(bytes, 1, Len(bytes) - Len(TagValueSuffix))

\* Reached: `a a=1 1` followed by two newlines has decoded to the DataPoint
\* of `a a=1 1`.
C15_Witness ==
    /\ FirstDecoded
    /\ bytes = TimestampPrefix \o <<"1", NL, NL>>
    /\ cur = Ok(InfluxDatapoint(A, EmptyMap, (A :> F64Value(FALSE, One, <<>>)), One))

\* C16: decoding an input that is empty or holds newlines only fails with
\* the error `Empty.`, which no scan returns: the scanner is not reached.
C16_EmptyInput ==
    (FirstDecoded /\ \A j \in 1..Len(bytes) : bytes[j] = NL) => cur = Err("Empty.")

\* Reached: the decode of two newlines has failed with `Empty.`.
C16_Witness == FirstDecoded /\ bytes = <<NL, NL>> /\ cur = Err("Empty.")

\* The first position of s from i on that holds a character of `set`, or 0.
FirstIn(s, i, set) ==
    IF \E j \in i..Len(s) : s[j] \in set
    THEN CHOOSE j \in i..Len(s) : s[j] \in set /\ \A h \in i..(j - 1) : s[h] \notin set
    ELSE 0

\* The character of s at the first position from i on that holds a character
\* of `set`, or NoChar.
FirstCharIn(s, i, set) ==
    IF FirstIn(s, i, set) = 0 THEN NoChar ELSE s[FirstIn(s, i, set)]

\* The line is `a,a=<text> a=1 1`: <text> stands where the value of the tag
\* a is.
HasTagValueShape(line) ==
    /\ Len(line) >= Len(TagValuePrefix) + Len(TagValueSuffix)
    /\ StartsWith(line, TagValuePrefix)
    /\ EndsWith(line, TagValueSuffix)

TagValueText(line) == SubSeq(line, Len(TagValuePrefix) + 1, Len(line) - Len(TagValueSuffix))

\* C17: in the tag region, a tag key whose scan a space or a comma ends
\* (and not `=`) makes decode fail with `Tag without value`: stated of the
\* first key after `a,`, and of the key after the comma that ends the value
\* of the first tag.
C17_TagWithoutValue ==
    FirstDecoded =>
        /\ (/\ StartsWith(bytes, <<"a", COMMA>>)
            /\ FirstCharIn(bytes, 3, {EQ, SP, COMMA, BS}) \in {SP, COMMA}) =>
              cur = Err("Tag without value")
        /\ (/\ HasTagValueShape(bytes)
            /\ FirstCharIn(bytes, 5, {EQ, SP, COMMA, BS}) = COMMA
            /\ FirstCharIn(bytes, FirstIn(bytes, 5, {COMMA}) + 1, {EQ, SP, COMMA, BS})
                  \in {SP, COMMA}) =>
              cur = Err("Tag without value")

\* Reached: the decode of `a,a a=1 1` (a tag without `=`) has failed.
C17_Witness ==
    /\ FirstDecoded
    /\ bytes = <<"a", COMMA, "a", SP, "a", EQ, "1", SP, "1">>
    /\ cur = Err("Tag without value")

RECURSIVE Count(_, _)
\* How many times the character c stands in s.
Count(s, c) ==
    IF s = <<>> THEN 0 ELSE (IF Head(s) = c THEN 1 ELSE 0) + Count(Tail(s), c)

\* How many times the pair `\=` stands in the line.
EscapedEquals(line) ==
    Cardinality({j \in 1..(Len(line) - 1) : line[j] = BS /\ line[j + 1] = EQ})

\* C18: a tag value whose scan `=` ends (an unescaped `=` in the value)
\* makes decode fail with `= found in tag value`; a decoded tag value holds
\* `=` only where the line had the escaped form `\=`.
C18_EqualsInTagValue ==
    FirstDecoded =>
        /\ (/\ HasTagValueShape(bytes)
            /\ FirstCharIn(bytes, 5, {EQ, SP, COMMA, BS}) = EQ) =>
              cur = Err("= found in tag value")
        /\ cur.ok =>
              \A k \in DOMAIN cur.dp.tags :
                  Count(cur.dp.tags[k], EQ) <= EscapedEquals(bytes)

\* Reached: the decode of `a,a=a=a a=1 1` has failed.
C18_Witness ==
    /\ FirstDecoded
    /\ bytes = TagValuePrefix \o <<"a", EQ, "a">> \o TagValueSuffix
    /\ cur = Err("= found in tag value")

\* The text is one decimal digit at least, and its value is below 2^64.
DecimalU64(text) == text # <<>> /\ IsDigits(text) /\ NumLeq(StripZeros(text), U64Max)

\* What follows `a a=1 ` in the line.
Remainder(line) == SubSeq(line, Len(TimestampPrefix) + 1, Len(line))

\* C19: after the space that ends the field region, decode succeeds only if
\* the whole remainder of the line is one character 0-9 or more and its
\* value is below 2^64, and the timestamp is that value; an empty remainder,
\* one with a character that is no decimal digit (a sign, a space, a
\* letter), and one that overflows 64 bits make decode fail. Stated of the
\* lines `a a=1 <remainder>` that do not end with a newline.
C19_TimestampRule ==
    (/\ FirstDecoded
     /\ StartsWith(bytes, TimestampPrefix)
     /\ bytes[Len(bytes)] # NL) =>
        /\ cur.ok <=> DecimalU64(Remainder(bytes))
        /\ cur.ok => cur.dp.timestamp = StripZeros(Remainder(bytes))

---------------------------------------------------------------------------
(* Properties of the scanner                                               *)

\* The stop characters of the scan of a region.
StopSet(region) ==
    IF region = "measurement" THEN {COMMA, SP}
    ELSE IF region = "field key" THEN {EQ}
    ELSE {EQ, SP, COMMA}

\* C20: in the scan of a region with the stop set S, a backslash followed
\* by a character c that is `\` or in S appends c alone to the result, takes
\* both characters, and does not end the scan though c is a stop character:
\* the scan of an escaped text of such characters returns the text and ends
\* at the terminator behind it.
C20_RecognisedEscape ==
    (/\ scan.stage = "scanned"
     /\ \A j \in 1..Len(scan.text) : scan.text[j] \in StopSet(scan.region) \cup {BS, "a"}) =>
        /\ scan.result.ok
        /\ scan.result.res = scan.text
        /\ scan.result.c = scan.term
        /\ scan.result.pos = Len(scan.escaped) + 1
        /\ Len(scan.escaped) = Len(scan.text) + 1 + Len(SelectSeq(scan.text, LAMBDA c : c # "a"))

\* Reached: the scan of the tag value `\=\\\,` and a space has returned `=\,`.
C20_Witness ==
    /\ scan.stage = "scanned"
    /\ scan.region = "tag value"
    /\ scan.text = <<EQ, BS, COMMA>>
    /\ scan.escaped = <<BS, EQ, BS, BS, BS, COMMA, SP>>
    /\ scan.result = ScanOk(<<EQ, BS, COMMA>>, SP, 8)

\* C21: in the scan of a region with the stop set S, a backslash followed
\* by a character c that is neither `\` nor in S appends the backslash and
\* c to the result (`\x` yields `\x`), and the scan goes on behind c: the
\* scan of an escaped text returns the text with a backslash before each
\* escaped character that is no stop of the region and no backslash.
C21_UnrecognisedEscape ==
    scan.stage = "scanned" =>
        /\ scan.result.ok
        /\ scan.result.res =
              Backslashed(scan.text, PolicyChars \ (StopSet(scan.region) \cup {BS}))
        /\ scan.result.c = scan.term
        /\ scan.result.pos = Len(scan.escaped) + 1

\* Reached: the scan of the measurement `\=\,\"` and a space has returned
\* `\=,\"`.
C21_Witness ==
    /\ scan.stage = "scanned"
    /\ scan.region = "measurement"
    /\ scan.escaped = <<BS, EQ, BS, COMMA, BS, DQ, SP>>
    /\ scan.result = ScanOk(<<BS, EQ, COMMA, BS, DQ>>, SP, 8)

---------------------------------------------------------------------------
(* Properties of the field region                                          *)

SecondFieldPrefix == <<"a", SP, "a", EQ, "1", COMMA>>

\* The line is `a a=1,<text> 1`: <text> stands where a second field is.
HasSecondFieldShape(line) ==
    /\ Len(line) >= Len(SecondFieldPrefix) + Len(ValueSuffix)
    /\ StartsWith(line, SecondFieldPrefix)
    /\ EndsWith(line, ValueSuffix)

SecondFieldText(line) ==
    SubSeq(line, Len(SecondFieldPrefix) + 1, Len(line) - Len(ValueSuffix))

FloatOne == F64Value(FALSE, One, <<>>)

\* The text is <key>=<digits>, the key without `=` and backslash.
KeyAndDigits(text) ==
    /\ FirstCharIn(text, 1, {EQ, BS}) = EQ
    /\ FirstIn(text, 1, {EQ}) < Len(text)
    /\ IsDigits(Rest(text, FirstIn(text, 1, {EQ}) + 1))

\* The field map of `a a=1,<key>=<digits> 1`.
TwoFields(text) ==
    (SubSeq(text, 1, FirstIn(text, 1, {EQ}) - 1)
        :> F64Value(FALSE, StripZeros(Rest(text, FirstIn(text, 1, {EQ}) + 1)), <<>>))
      @@ (A :> FloatOne)

\* C22: each field is a key scanned with the single stop `=` (a comma or a
\* space is part of the key) and then a classified value; after a value
\* that a comma ends the parser reads another field; at the first value
\* that a space ends the field region ends, and all that follows that space
\* is the timestamp.
C22_FieldRegion ==
    FirstDecoded =>
        /\ (HasSecondFieldShape(bytes) /\ KeyAndDigits(SecondFieldText(bytes))) =>
              cur = Ok(InfluxDatapoint(A, EmptyMap, TwoFields(SecondFieldText(bytes)), One))
        /\ (StartsWith(bytes, TimestampPrefix) /\ cur.ok) =>
              /\ cur.dp.fields = (A :> FloatOne)
              /\ \A j \in 1..Len(Remainder(Trimmed(bytes))) :
                    Remainder(Trimmed(bytes))[j] \notin {EQ, COMMA, SP}
        /\ (StartsWith(bytes, TimestampPrefix)
              /\ \E j \in 1..Len(Remainder(bytes)) : Remainder(bytes)[j] \in {EQ, COMMA, SP}) =>
              ~cur.ok

\* Reached: `a a=1, =0 1` has decoded to the fields a = 1 and ` ` = 0.
C22_Witness ==
    /\ FirstDecoded
    /\ bytes = SecondFieldPrefix \o <<SP, EQ, "0">> \o ValueSuffix
    /\ cur.ok
    /\ cur.dp.fields = (A :> FloatOne) @@ (<<SP>> :> F64Value(FALSE, <<"0">>, <<>>))
    /\ cur.dp.timestamp = One

RECURSIVE Unescaped(_)
\* The text with each backslash dropped and the character behind it kept.
Unescaped(text) ==
    IF text = <<>> THEN <<>>
    ELSE IF Head(text) = BS
         THEN IF Len(text) = 1 THEN <<>>
              ELSE <<text[2]>> \o Unescaped(SubSeq(text, 3, Len(text)))
    ELSE <<Head(text)>> \o Unescaped(Tail(text))

RECURSIVE PlainOutsideEscapes(_)
\* Outside its escapes the text holds no terminator and no `i`, and no
\* backslash is its last character.
PlainOutsideEscapes(text) ==
    IF text = <<>> THEN TRUE
    ELSE IF Head(text) = BS
         THEN Len(text) >= 2 /\ PlainOutsideEscapes(SubSeq(text, 3, Len(text)))
    ELSE Head(text) \notin {COMMA, SP, "i"} /\ PlainOutsideEscapes(Tail(text))

\* The field a of `a a=<text>...` has decoded as the token `tok` classifies.
ClassifiedAs(tok) ==
    IF float_or_bool(tok).ok
    THEN cur.ok /\ A \in DOMAIN cur.dp.fields /\ cur.dp.fields[A] = float_or_bool(tok).val
    ELSE ~cur.ok

\* C23: at every position of an unquoted field value, the first included,
\* a backslash is dropped and the character behind it joins the token as it
\* is, not read as a terminator nor as the integer suffix: the value
\* classifies as the token without its backslashes (`\t` as `t`).
C23_UnquotedEscape ==
    FirstDecoded =>
        \A suf \in ValueSuffixes :
            (/\ HasValueShape(bytes, suf)
             /\ ValueText(bytes, suf) # <<>>
             /\ Head(ValueText(bytes, suf)) # DQ
             /\ BS \in {ValueText(bytes, suf)[j] : j \in 1..Len(ValueText(bytes, suf))}
             /\ PlainOutsideEscapes(ValueText(bytes, suf))) =>
                ClassifiedAs(Unescaped(ValueText(bytes, suf)))

\* The text holds none of the characters of `set`.
Without(text, set) == \A j \in 1..Len(text) : text[j] \notin set

\* C24: in an unquoted field value every unescaped `i`, at any position of
\* the value, must have `,` or a space right behind it; with any other
\* character behind it, or the end of the input, decode fails. Stated of the
\* values without backslash: an `i` that is not their last character has
\* another character of the value behind it.
C24_BadIntegerSuffix ==
    FirstDecoded =>
        /\ \A suf \in ValueSuffixes :
              (/\ HasValueShape(bytes, suf)
               /\ Without(ValueText(bytes, suf), {COMMA, SP, BS, DQ})
               /\ \E j \in 1..(Len(ValueText(bytes, suf)) - 1) :
                     ValueText(bytes, suf)[j] = "i") =>
                  ~cur.ok
        /\ (/\ StartsWith(bytes, ValuePrefix)
            /\ Without(Rest(bytes, Len(ValuePrefix) + 1), {COMMA, SP, BS, DQ, NL})
            /\ "i" \in {bytes[j] : j \in (Len(ValuePrefix) + 1)..Len(bytes)}) =>
              ~cur.ok

---------------------------------------------------------------------------
(* Properties of the end of the input                                      *)

\* The position of the last space of the line, or 0.
LastSpace(line) ==
    IF \E j \in 1..Len(line) : line[j] = SP
    THEN CHOOSE j \in 1..Len(line) :
            line[j] = SP /\ \A h \in (j + 1)..Len(line) : line[h] # SP
    ELSE 0

\* The text without the `+` it may start with.
Unsigned(text) == IF text # <<>> /\ Head(text) = "+" THEN Tail(text) ELSE text

\* The heads of a line behind which a scan of the scanner runs: of the
\* measurement, a tag key, a tag value, a field key, a second field key and
\* the body of a string.
ScanHeads ==
    { <<>>, <<"a", COMMA>>, TagValuePrefix, <<"a", SP>>, SecondFieldPrefix,
      ValuePrefix \o <<DQ>> }

\* The errors of an unquoted value that the input ends.
ValueEndErrors ==
    { "Unexpected end of values", "Unexpected character or end of value definition",
      "Unexpected end of line", "Unexpected character, expected ' ' or ','." }

\* C25: when the line ends while a region is being scanned (the measurement
\* without `,` or space, a tag key or value without a stop, a field key
\* without `=`, a string without its closing quote, an unquoted value
\* without `,` or space), decode fails; a line without a timestamp behind a
\* space, such as `a a=1`, never decodes.
C25_UnterminatedInput ==
    FirstDecoded =>
        /\ cur.ok =>
              /\ 0 < LastSpace(Trimmed(bytes))
              /\ LastSpace(Trimmed(bytes)) < Len(Trimmed(bytes))
              /\ cur.dp.timestamp =
                    StripZeros(Unsigned(Rest(Trimmed(bytes), LastSpace(Trimmed(bytes)) + 1)))
        /\ \A pre \in ScanHeads :
              (/\ bytes # <<>>
               /\ StartsWith(bytes, pre)
               /\ Without(Rest(bytes, Len(pre) + 1), {COMMA, SP, EQ, DQ, BS, NL})) =>
                  cur = Err("Expected end but did not find it")
        /\ (/\ StartsWith(bytes, ValuePrefix)
            /\ Without(Rest(bytes, Len(ValuePrefix) + 1), {COMMA, SP, DQ, NL})) =>
              ~cur.ok /\ cur.err \in ValueEndErrors

\* Reached: the decode of `a a=1`, a line without a timestamp, has failed at
\* the end of the value.
C25_Witness ==
    /\ FirstDecoded
    /\ bytes = ValuePrefix \o <<"1">>
    /\ cur = Err("Unexpected character or end of value definition")

RECURSIVE TrailingBackslashes(_)
\* How many backslashes end the text.
TrailingBackslashes(text) ==
    IF text # <<>> /\ text[Len(text)] = BS
    THEN 1 + TrailingBackslashes(SubSeq(text, 1, Len(text) - 1)) ELSE 0

\* C26: when a region of the scanner (measurement, tag key, tag value,
\* field key, string body) ends the input with a backslash that no
\* character follows, decode fails with `non terminated escape sequence`:
\* the backslash is not put in the result, and the error is not that of an
\* unterminated region.
C26_UnterminatedEscape ==
    FirstDecoded =>
        \A pre \in ScanHeads :
            (/\ StartsWith(bytes, pre)
             /\ Without(Rest(bytes, Len(pre) + 1), {COMMA, SP, EQ, DQ, NL})
             /\ TrailingBackslashes(Rest(bytes, Len(pre) + 1)) % 2 = 1) =>
                cur = Err("non terminated escape sequence")

\* Reached: the decode of `a,a=a\`, a tag value that a backslash ends, has
\* failed.
C26_Witness ==
    /\ FirstDecoded
    /\ bytes = TagValuePrefix \o <<"a", BS>>
    /\ cur = Err("non terminated escape sequence")

---------------------------------------------------------------------------
(* Properties of the loops of the parser                                   *)

\* C27: the `unreachable!()` arm of the field loop is never executed: on
\* every input and from every position, a value the classifier returns has
\* `,` or a space as its terminator, so decode never panics and returns a
\* DataPoint or an error.
C27_UnreachableArm ==
    FirstDecoded =>
        /\ cur.err # "panic: unreachable"
        /\ pc = (IF cur.ok THEN "point" ELSE "failed")
        /\ \A i \in 1..(Len(bytes) + 1) :
              \A v \in {parse_value(bytes, i)} : v.ok => v.c \in {COMMA, SP}

\* Reached: `a a="a",t=1 1`, a string that a comma ends and a number that a
\* space ends, has decoded.
C27_Witness ==
    /\ FirstDecoded
    /\ bytes = ValuePrefix \o <<DQ, "a", DQ>> \o <<COMMA, "t", EQ, "1", SP, "1">>
    /\ cur.ok
    /\ cur.dp.fields = (A :> StringValue(A)) @@ (<<"t">> :> FloatOne)

\* The cursor of a successful step that started at i is behind i and not
\* behind the end of the line.
Forward(r, i, line) == r.ok => (i < r.pos /\ r.pos <= Len(line) + 1)

\* The positions of a line behind a character of the set: where the steps
\* that follow such a character start.
Behind(line, set) == {i \in 2..(Len(line) + 1) : line[i - 1] \in set}

\* C28: decode terminates on every finite input: the cursor only moves
\* forward, and every round of the newline loop, the tag loop, the field
\* loop and the scanner loop takes one character at least or returns, so
\* the parser reaches its result in a number of steps the length of the
\* input bounds. Stated of every step of the parser started wherever the
\* code starts it: the measurement at the head of the line, the tag region
\* behind a comma, a tag key behind a comma and a tag value behind `=`, a
\* field value behind `=`, a field key behind a space or a comma, the field
\* region behind a space, and the body of a string behind a quote.
C28_DecodeTerminates ==
    FirstDecoded =>
        /\ pc \in {"point", "failed"}
        /\ Len(StripNewlines(bytes)) <= Len(bytes)
        /\ Forward(parse_to_char2(bytes, 1, COMMA, SP), 1, bytes)
        /\ \A i \in Behind(bytes, {COMMA}) :
              Forward(parse_tags(bytes, i), i, bytes)
        /\ \A i \in Behind(bytes, {COMMA, EQ}) :
              Forward(parse_to_char3(bytes, i, EQ, SP, COMMA), i, bytes)
        /\ \A i \in Behind(bytes, {EQ}) :
              Forward(parse_value(bytes, i), i, bytes)
        /\ \A i \in Behind(bytes, {SP, COMMA}) :
              Forward(parse_to_char(bytes, i, EQ), i, bytes)
        /\ \A i \in Behind(bytes, {SP}) :
              Forward(parse_fields(bytes, i), i, bytes)
        /\ \A i \in Behind(bytes, {DQ}) :
              Forward(parse_to_char(bytes, i, DQ), i, bytes)

\* Reached: `a,a=0,t=1 a=1 1`, a line of two tag rounds and one field round
\* behind the measurement, has decoded.
C28_Witness ==
    /\ FirstDecoded
    /\ bytes = TwoTagsLine(A, <<"t">>)
    /\ cur = Ok(InfluxDatapoint(A, (A :> <<"0">>) @@ (<<"t">> :> One), (A :> FloatOne), One))

\* The key that a key text of KeyTexts is read as.
KeyOf(k) == IF k = <<BS, EQ>> THEN <<EQ>> ELSE IF k = <<BS, BS>> THEN <<BS>> ELSE k

\* C29: when a line repeats a tag key or a field key (as read, without its
\* escapes), decode succeeds, the map holds the key once, and its value is
\* that of the last occurrence in the line.
C29_DuplicateKeys ==
    FirstDecoded =>
        \A k1 \in KeyTexts, k2 \in KeyTexts :
            /\ bytes = TwoTagsLine(k1, k2) =>
                  /\ cur.ok
                  /\ cur.dp.tags = (KeyOf(k2) :> One) @@ (KeyOf(k1) :> <<"0">>)
            /\ bytes = TwoFieldsLine(k1, k2) =>
                  /\ cur.ok
                  /\ cur.dp.fields = (KeyOf(k2) :> I64Value(FALSE, One))
                                       @@ (KeyOf(k1) :> F64Value(FALSE, <<"0">>, <<>>))

\* Reached: `a a=0,a=1i 1` has decoded to the one field a = Integer(1).
C29_Witness ==
    /\ FirstDecoded
    /\ bytes = TwoFieldsLine(A, A)
    /\ cur.ok
    /\ cur.dp.fields = (A :> I64Value(FALSE, One))

\* C30: encode validates no structure: it succeeds for every DataPoint whose
\* field values are all strings, floats, integers or booleans, also with an
\* empty fields map, an empty measurement or empty keys; with an empty
\* fields map the output is the measurement (and the tags), two spaces and
\* the timestamp.
C30_NoValidation ==
    (last = "encode" /\ \A k \in DOMAIN prev.fields : Scalar(prev.fields[k])) =>
        /\ pc = "bytes"
        /\ DOMAIN prev.fields = {} =>
              bytes = PolicyHead(prev, iter.tags, <<>>) \o <<SP>> \o prev.timestamp

\* Reached: the DataPoint a with the tag a = b and no field has been written
\* as `a,a=b  82`.
C30_Witness ==
    /\ last = "encode"
    /\ pc = "bytes"
    /\ prev.fields = EmptyMap
    /\ bytes = <<"a", COMMA, "a", EQ, "b", SP, SP, "8", "2">>

===========================================================================
